---- MODULE Spec2Model ----
(***************************************************************************)
(* A model of the LC-3 emulator of src/src/lc3.rs: the processor state,    *)
(* the memory subsystem with its mapped device registers, the fetch-       *)
(* decode-execute cycle (clock), the external interrupt and the internal   *)
(* exception.  16-bit values are kept as their bit patterns 0..65535;      *)
(* Signed reads a pattern as the i16 the code holds.                       *)
(***************************************************************************)
EXTENDS Integers, Sequences, FiniteSets, TLC

VARIABLES
    \* struct LC3
    last_io, halted, ie, pc, psr, saved_usp, saved_ssp,
    r0, r1, r2, r3, r4, r5, r6, r7,
    \* struct LC3Memory
    mem, keyboard_ready, last_char,
    \* the build, "debug" (overflow checks) or "release" (wrapping), left "any"
    \* until a call depends on it; and whether a call has panicked
    build, panicked,
    \* observation of the last call: what was called, the state before it,
    \* what it returned, and the memory accesses / events it performed
    op, pre, ret, log, polled,
    \* the context entered by the most recent interrupt or exception
    ctx,
    \* the contexts entered and not yet left by an RTI, innermost last; the
    \* context the last call left; the data register as the last successful
    \* interrupt filled it
    frames, resumed, kbd,
    \* bookkeeping of the host's calls
    loaded, started, poked, nexec, nclock, nint, nput, nget,
    \* what the driver has printed for the Display events
    printed

vars == << last_io, halted, ie, pc, psr, saved_usp, saved_ssp,
           r0, r1, r2, r3, r4, r5, r6, r7,
           mem, keyboard_ready, last_char,
           build, panicked,
           op, pre, ret, log, polled, ctx, frames, resumed, kbd,
           loaded, started, poked, nexec, nclock, nint, nput, nget, printed >>

----------------------------------------------------------------------------
(* 16-bit words *)

W == 65536

wrapping_add(a, b) == (a + b) % W

wrapping_sub(a, b) == (a - b) % W

\* the i16 value of a bit pattern
Signed(w) == IF w >= 32768 THEN w - W ELSE w

\* 2^n
Pow2(n) == 2 ^ n

\* bits lo .. lo+n-1 of w:  (w >> lo) & (2^n - 1)
Bits(w, lo, n) == (w \div Pow2(lo)) % Pow2(n)

\* w | (bit << k), for bit in {0, 1}
OrBit(w, bit, k) ==
    IF bit = 1 /\ Bits(w, k, 1) = 0 THEN w + Pow2(k) ELSE w

\* bitwise and of two 16-bit patterns
RECURSIVE BitAnd(_, _, _)
BitAnd(a, b, n) ==
    IF n = 0 THEN 0
    ELSE (a % 2) * (b % 2) + 2 * BitAnd(a \div 2, b \div 2, n - 1)

\* bitwise complement of a 16-bit pattern
BitNot(a) == (W - 1) - a

\* Mode switch of ADD and AND: instruction & 0b100000 == 0b100000
mux(instruction) == Bits(instruction, 5, 1) = 1

\* 2's complement sign-extension: bit length-1 is or-ed into bits length..15
RECURSIVE sign_extend_loop(_, _, _)
sign_extend_loop(out, bit, ctr) ==
    IF ctr < 16 THEN sign_extend_loop(OrBit(out, bit, ctr), bit, ctr + 1)
    ELSE out

\* sign_extend reading the bit above the field as its sign
sign_extend_bit_above(value, length) ==
    sign_extend_loop(value, Bits(value, length, 1), length)

sign_extend(value, length) ==
    sign_extend_loop(value, Bits(value, length - 1, 1), length)

----------------------------------------------------------------------------
(* LC3IO, Option<i16> and Result<u8, &str> *)

IONone == <<"None">>
IOHalt == <<"Halt">>
IODisplay(c) == <<"Display", c>>

NoChar == <<>>
SomeChar(c) == <<c>>

Ok(p) == <<"Ok", p>>
ErrIE == <<"Err", "Interrupt Enable is 0">>
ErrPrio == <<"Err", "Currently servicing a higher or equal priority task.">>

\* device register addresses
KBSR == 65024   \* 0xFE00
KBDR == 65026   \* 0xFE02
DSR  == 65028   \* 0xFE04
DDR  == 65030   \* 0xFE06
MCR  == 65534   \* 0xFFFE
IVT  == 256     \* 0x0100

----------------------------------------------------------------------------
(* LC3Memory.  mem holds the cells that are not 0; every other cell is 0. *)

Cell(memory, index) == IF index \in DOMAIN memory THEN memory[index] ELSE 0

Store(memory, index, value) ==
    IF value = 0
    THEN [a \in (DOMAIN memory) \ {index} |-> memory[a]]
    ELSE [a \in (DOMAIN memory) \cup {index} |->
              IF a = index THEN value ELSE memory[a]]

\* the value LC3Memory::get returns
get_value(m, index) ==
    IF index = DSR THEN 1
    ELSE IF index = KBSR THEN (IF m.keyboard_ready THEN 1 ELSE 0)
    ELSE Cell(m.mem, index)

\* get without the side effect on the keyboard-ready latch
get_state_keeps_latch(m, index) ==
    [m EXCEPT !.log = Append(@, <<"get", index, get_value(m, index)>>)]

\* the machine after LC3Memory::get; the log keeps the address and the value
get_state(m, index) ==
    [m EXCEPT !.keyboard_ready = IF index = KBDR THEN FALSE ELSE @,
              !.log = Append(@, <<"get", index, get_value(m, index)>>)]

\* LC3Memory::put
put(m, index, value) ==
    [m EXCEPT !.last_char = IF index = DDR THEN SomeChar(value) ELSE @,
              !.mem = Store(@, index % W, value),
              !.log = Append(@, <<"put", index, value>>)]

----------------------------------------------------------------------------
(* Registers and condition codes *)

\* reg / get_reg: the register a 3-bit code names
get_reg(m, code) ==
    CASE code % 8 = 0 -> m.r0
      [] code % 8 = 1 -> m.r1
      [] code % 8 = 2 -> m.r2
      [] code % 8 = 3 -> m.r3
      [] code % 8 = 4 -> m.r4
      [] code % 8 = 5 -> m.r5
      [] code % 8 = 6 -> m.r6
      [] code % 8 = 7 -> m.r7

put_reg(m, code, data) ==
    CASE code % 8 = 0 -> [m EXCEPT !.r0 = data]
      [] code % 8 = 1 -> [m EXCEPT !.r1 = data]
      [] code % 8 = 2 -> [m EXCEPT !.r2 = data]
      [] code % 8 = 3 -> [m EXCEPT !.r3 = data]
      [] code % 8 = 4 -> [m EXCEPT !.r4 = data]
      [] code % 8 = 5 -> [m EXCEPT !.r5 = data]
      [] code % 8 = 6 -> [m EXCEPT !.r6 = data]
      [] code % 8 = 7 -> [m EXCEPT !.r7 = data]

\* codes taking zero for positive
codes_zero_positive(m, value) ==
    LET cleared == m.psr - (m.psr % 8)
    IN  [m EXCEPT !.psr =
            IF Signed(value) >= 0 THEN cleared + 1 ELSE cleared + 4]

\* Sets the NZP bits of the PSR: the low three bits are cleared, then one is set
codes(m, value) ==
    LET cleared == m.psr - (m.psr % 8)
    IN  [m EXCEPT !.psr =
            IF Signed(value) = 0 THEN cleared + 2
            ELSE IF Signed(value) > 0 THEN cleared + 1
            ELSE IF Signed(value) < 0 THEN cleared + 4
            ELSE cleared]

----------------------------------------------------------------------------
(* Internal exception and external interrupt *)

\* context_save with the two pushes in the other order: pc, then psr
context_save_pc_first(m) ==
    LET a == [m EXCEPT !.saved_usp = m.r6, !.r6 = wrapping_sub(m.saved_ssp, 1)]
        b == put(a, a.r6, a.pc)
        c == [b EXCEPT !.r6 = wrapping_sub(b.r6, 1)]
    IN  put(c, c.r6, c.psr)

\* the context save both share: saved_usp := r6, r6 := saved_ssp, push psr, push pc
context_save(m) ==
    LET a == [m EXCEPT !.saved_usp = m.r6, !.r6 = wrapping_sub(m.saved_ssp, 1)]
        b == put(a, a.r6, a.psr)
        c == [b EXCEPT !.r6 = wrapping_sub(b.r6, 1)]
    IN  put(c, c.r6, c.pc)

\* exception without the switch to supervisor mode
exception_keeps_priv(m, code) ==
    LET a == context_save([m EXCEPT !.log = Append(@, <<"exception", code>>)])
    IN  [get_state(a, IVT + code) EXCEPT !.pc = get_value(a, IVT + code)]

\* LC3::exception
exception(m, code) ==
    LET a == context_save([m EXCEPT !.log = Append(@, <<"exception", code>>)])
        b == [a EXCEPT !.psr = a.psr % 32768]            \* psr &= 0x7FFF
    IN  [get_state(b, IVT + code) EXCEPT !.pc = get_value(b, IVT + code)]

\* the priority field psr bits 10..8 as interrupt reads it
current_priority(m) == Bits(m.psr, 8, 3)

\* the priority check letting an equal priority through
priority_too_low_strict(m, priority) == current_priority(m) > priority

\* the priority check: prio >= priority rejects the request
priority_too_low(m, priority) == current_priority(m) >= priority

\* the psr update with a mask that keeps bit 15
interrupt_psr_keeps_priv(p, priority) ==
    (p % 256) + 2048 * Bits(p, 11, 5) + 256 * (priority % 8)

\* the psr update leaving the priority field as it was
interrupt_psr_keeps_priority(p, priority) == p % 32768

\* psr &= 0b0_111_1000_1111_1111; psr |= (priority & 0b111) << 8
interrupt_psr(p, priority) ==
    (p % 256) + 2048 * Bits(p, 11, 4) + 256 * (priority % 8)

\* LC3::interrupt; the result is left in ret
interrupt(m, code, priority, data) ==
    IF ~(m.ie = 1) THEN [m EXCEPT !.ret = ErrIE]
    ELSE IF priority_too_low(m, priority) THEN [m EXCEPT !.ret = ErrPrio]
    ELSE
      LET a == [put(m, KBDR, data) EXCEPT !.keyboard_ready = TRUE]
          b == context_save(a)
          c == [b EXCEPT !.psr = interrupt_psr(b.psr, priority)]
      IN  [get_state(c, IVT + code) EXCEPT
              !.pc = get_value(c, IVT + code),
              !.ret = Ok(priority)]

----------------------------------------------------------------------------
(* The instructions *)

\* the offset added to the address of the instruction, not to the incremented pc
pc_offset_unincremented(m, instruction, n) ==
    wrapping_add(wrapping_sub(m.pc, 1), sign_extend(instruction % Pow2(n), n))

\* pc + sign-extended low n bits of the instruction
pc_offset(m, instruction, n) ==
    wrapping_add(m.pc, sign_extend(instruction % Pow2(n), n))

\* the destination-register write every result-producing instruction ends with
set_result(m, dr, res) == put_reg(codes(m, res), dr, res)

\* ADD
add(m, instruction) ==
    LET dr  == Bits(instruction, 9, 3)
        sr1 == Bits(instruction, 6, 3)
    IN  IF mux(instruction)
        THEN LET imm == sign_extend(instruction % 32, 5)
             IN  set_result(m, dr, wrapping_add(get_reg(m, sr1), imm))
        ELSE LET sr2 == instruction % 8
                 sum == Signed(get_reg(m, sr1)) + Signed(get_reg(m, sr2))
                 over == sum > 32767 \/ sum < -32768
                 a == [m EXCEPT !.overflowed = over]
             IN  IF over /\ m.overflow_checks
                 THEN [a EXCEPT !.panicked = TRUE]
                 ELSE set_result(a, dr, sum % W)

\* AND
and(m, instruction) ==
    LET dr  == Bits(instruction, 9, 3)
        sr1 == Bits(instruction, 6, 3)
    IN  IF mux(instruction)
        THEN LET imm == sign_extend(instruction % 32, 5)
             IN  set_result(m, dr, BitAnd(get_reg(m, sr1), imm, 16))
        ELSE LET sr2 == instruction % 8
             IN  set_result(m, dr, BitAnd(get_reg(m, sr1), get_reg(m, sr2), 16))

\* BR: whether the requested condition bits match the condition codes
br_taken(p, instruction) ==
    LET n   == Bits(p, 2, 1)
        z   == Bits(p, 1, 1)
        pp  == Bits(p, 0, 1)
        i_n == Bits(instruction, 9, 1)
        i_z == Bits(instruction, 10, 1)
        i_p == Bits(instruction, 11, 1)
    IN  (i_n = 1 /\ n = 1) \/ (i_z = 1 /\ z = 1) \/ (i_p = 1 /\ pp = 1)

\* BR
br(m, instruction) ==
    IF br_taken(m.psr, instruction)
    THEN [m EXCEPT !.pc = pc_offset(m, instruction, 9)]
    ELSE m

\* JMP / RET
jmp(m, instruction) == [m EXCEPT !.pc = get_reg(m, Bits(instruction, 6, 3))]

\* JSR / JSRR writing the link before it reads the base register
jsr_link_first(m, instruction) ==
    LET mode == Bits(instruction, 11, 1)
        a == [m EXCEPT !.r7 = m.pc]
    IN  IF mode = 1
        THEN [a EXCEPT !.pc = pc_offset(a, instruction, 11)]
        ELSE [a EXCEPT !.pc = get_reg(a, Bits(instruction, 6, 3))]

\* JSR / JSRR
jsr(m, instruction) ==
    LET mode == Bits(instruction, 11, 1)
        temp == m.pc
        a == IF mode = 1
             THEN [m EXCEPT !.pc = pc_offset(m, instruction, 11)]
             ELSE [m EXCEPT !.pc = get_reg(m, Bits(instruction, 6, 3))]
    IN  [a EXCEPT !.r7 = temp]

\* LD
ld(m, instruction) ==
    LET dr   == Bits(instruction, 9, 3)
        addr == pc_offset(m, instruction, 9)
    IN  set_result(get_state(m, addr), dr, get_value(m, addr))

\* LDI
ldi(m, instruction) ==
    LET dr    == Bits(instruction, 9, 3)
        addr  == pc_offset(m, instruction, 9)
        addr2 == get_value(m, addr)
        a     == get_state(m, addr)
    IN  set_result(get_state(a, addr2), dr, get_value(a, addr2))

\* LDR leaving the condition codes as they were
ldr_keeps_codes(m, instruction) ==
    LET dr     == Bits(instruction, 9, 3)
        base_r == get_reg(m, Bits(instruction, 6, 3))
        offset == sign_extend(instruction % 64, 6)
        addr   == wrapping_add(base_r, offset)
    IN  put_reg(get_state(m, addr), dr, get_value(m, addr))

\* LDR
ldr(m, instruction) ==
    LET dr     == Bits(instruction, 9, 3)
        base_r == get_reg(m, Bits(instruction, 6, 3))
        offset == sign_extend(instruction % 64, 6)
        addr   == wrapping_add(base_r, offset)
    IN  set_result(get_state(m, addr), dr, get_value(m, addr))

\* LEA
lea(m, instruction) ==
    set_result(m, Bits(instruction, 9, 3), pc_offset(m, instruction, 9))

\* NOT
not(m, instruction) ==
    set_result(m, Bits(instruction, 9, 3),
               BitNot(get_reg(m, Bits(instruction, 6, 3))))

\* RTI popping psr first, then pc
rti_psr_first(m, instruction) ==
    IF Bits(m.psr, 15, 1) = 0
    THEN LET a == [get_state(m, m.r6) EXCEPT
                      !.psr = get_value(m, m.r6),
                      !.r6 = wrapping_add(m.r6, 1)]
             b == [get_state(a, a.r6) EXCEPT
                      !.pc = get_value(a, a.r6),
                      !.r6 = wrapping_add(a.r6, 1)]
         IN  [b EXCEPT !.saved_ssp = b.r6, !.r6 = b.saved_usp]
    ELSE exception(m, 0)

\* RTI: in supervisor mode pops pc, then psr, then swaps the stack pointers
rti(m, instruction) ==
    IF Bits(m.psr, 15, 1) = 0
    THEN LET a == [get_state(m, m.r6) EXCEPT
                      !.pc = get_value(m, m.r6),
                      !.r6 = wrapping_add(m.r6, 1)]
             b == [get_state(a, a.r6) EXCEPT
                      !.psr = get_value(a, a.r6),
                      !.r6 = wrapping_add(a.r6, 1)]
         IN  [b EXCEPT !.saved_ssp = b.r6, !.r6 = b.saved_usp]
    ELSE exception(m, 0)

\* ST
st(m, instruction) ==
    put(m, pc_offset(m, instruction, 9), get_reg(m, Bits(instruction, 9, 3)))

\* STI setting the condition codes of the value it stores
sti_sets_codes(m, instruction) ==
    LET sr    == get_reg(m, Bits(instruction, 9, 3))
        addr  == pc_offset(m, instruction, 9)
        addr2 == get_value(m, addr)
    IN  codes(put(get_state(m, addr), addr2, sr), sr)

\* STI
sti(m, instruction) ==
    LET sr    == get_reg(m, Bits(instruction, 9, 3))
        addr  == pc_offset(m, instruction, 9)
        addr2 == get_value(m, addr)
    IN  put(get_state(m, addr), addr2, sr)

\* STR
stor(m, instruction) ==
    LET sr     == get_reg(m, Bits(instruction, 9, 3))
        base_r == get_reg(m, Bits(instruction, 6, 3))
        addr   == wrapping_add(base_r, sign_extend(instruction % 64, 6))
    IN  put(m, addr, sr)

\* TRAP entering supervisor mode
trap_enters_supervisor(m, instruction) ==
    LET a == [m EXCEPT !.r7 = m.pc, !.psr = m.psr % 32768]
        vector_index == instruction % 256
    IN  [get_state(a, vector_index) EXCEPT !.pc = get_value(a, vector_index)]

\* TRAP
trap(m, instruction) ==
    LET a == [m EXCEPT !.r7 = m.pc]
        vector_index == instruction % 256
    IN  [get_state(a, vector_index) EXCEPT !.pc = get_value(a, vector_index)]

----------------------------------------------------------------------------
(* The cycle *)

\* fetch, decode, execute: the body of `if !self.halted`
step(m) ==
    LET instruction == get_value(m, m.pc)
        a == [get_state(m, m.pc) EXCEPT
                 !.pc = wrapping_add(m.pc, 1),
                 !.log = Append(@, <<"exec", instruction>>)]
        code == Bits(instruction, 12, 4)
    IN  CASE code = 1  -> add(a, instruction)
          [] code = 5  -> and(a, instruction)
          [] code = 0  -> br(a, instruction)
          [] code = 12 -> jmp(a, instruction)
          [] code = 4  -> jsr(a, instruction)
          [] code = 2  -> ld(a, instruction)
          [] code = 10 -> ldi(a, instruction)
          [] code = 6  -> ldr(a, instruction)
          [] code = 14 -> lea(a, instruction)
          [] code = 9  -> not(a, instruction)
          [] code = 8  -> rti(a, instruction)
          [] code = 3  -> st(a, instruction)
          [] code = 11 -> sti(a, instruction)
          [] code = 7  -> stor(a, instruction)
          [] code = 15 -> trap(a, instruction)
          [] OTHER     -> exception(a, 1)

\* check memory for char; polled keeps what the latch held when it was checked
poll_char(m) ==
    IF m.last_char # NoChar
    THEN [m EXCEPT !.last_io = IODisplay(m.last_char[1]),
                   !.last_char = NoChar,
                   !.polled = m.last_char]
    ELSE [m EXCEPT !.polled = NoChar]

\* the halt check reading the control register without acting on it
poll_halt_never(m) == get_state(m, MCR)

\* check memory for halt
poll_halt(m) ==
    IF get_value(m, MCR) = 0
    THEN [get_state(m, MCR) EXCEPT !.halted = TRUE, !.last_io = IOHalt]
    ELSE get_state(m, MCR)

\* the event of this cycle is returned and last_io reset
take_io(m) == [m EXCEPT !.ret = m.last_io, !.last_io = IONone]

\* a clock that executes whether halted or not
executes_always(m) == TRUE

\* whether this call fetches and executes
executes(m) == ~m.halted

\* LC3::clock
clock(m) ==
    LET s == IF executes(m) THEN step(m) ELSE m
    IN  IF s.panicked THEN [s EXCEPT !.ret = <<"Panic">>]
        ELSE take_io(poll_halt(poll_char(s)))

\* LC3::start
start(m) == put([m EXCEPT !.halted = FALSE], MCR, 1)

\* lc3.memory.get(index) by the host; the value is left in ret
host_get(m, index) == [get_state(m, index) EXCEPT !.ret = <<get_value(m, index)>>]

----------------------------------------------------------------------------
(* The machine as a record, and back *)

Machine(checks) ==
    [ last_io |-> last_io, halted |-> halted, ie |-> ie, pc |-> pc, psr |-> psr,
      saved_usp |-> saved_usp, saved_ssp |-> saved_ssp,
      r0 |-> r0, r1 |-> r1, r2 |-> r2, r3 |-> r3,
      r4 |-> r4, r5 |-> r5, r6 |-> r6, r7 |-> r7,
      mem |-> mem, keyboard_ready |-> keyboard_ready, last_char |-> last_char,
      overflow_checks |-> checks, overflowed |-> FALSE, panicked |-> panicked,
      ret |-> <<>>, log |-> <<>>, polled |-> NoChar ]

\* the fields of LC3 and LC3Memory a caller can observe
View(m) ==
    [ halted |-> m.halted, pc |-> m.pc, psr |-> m.psr,
      saved_usp |-> m.saved_usp, saved_ssp |-> m.saved_ssp,
      r0 |-> m.r0, r1 |-> m.r1, r2 |-> m.r2, r3 |-> m.r3,
      r4 |-> m.r4, r5 |-> m.r5, r6 |-> m.r6, r7 |-> m.r7,
      mem |-> m.mem, keyboard_ready |-> m.keyboard_ready,
      last_char |-> m.last_char ]

\* the state the host sees now
Now == View(Machine(FALSE))

\* the builds a call may run under
Checks == IF build = "any" THEN BOOLEAN ELSE { build = "debug" }

Assign(n) ==
    /\ last_io' = n.last_io /\ halted' = n.halted /\ ie' = n.ie
    /\ pc' = n.pc /\ psr' = n.psr
    /\ saved_usp' = n.saved_usp /\ saved_ssp' = n.saved_ssp
    /\ r0' = n.r0 /\ r1' = n.r1 /\ r2' = n.r2 /\ r3' = n.r3
    /\ r4' = n.r4 /\ r5' = n.r5 /\ r6' = n.r6 /\ r7' = n.r7
    /\ mem' = n.mem /\ keyboard_ready' = n.keyboard_ready
    /\ last_char' = n.last_char
    /\ panicked' = n.panicked
    /\ build' = IF n.overflowed
                THEN (IF n.overflow_checks THEN "debug" ELSE "release")
                ELSE build
    /\ ret' = n.ret /\ log' = n.log /\ polled' = n.polled
    /\ pre' = Now

\* LC3::new and LC3Memory::new
new(checks) ==
    [ last_io |-> IONone, halted |-> TRUE, ie |-> 1, pc |-> 0, psr |-> 0,
      saved_usp |-> 0, saved_ssp |-> 0,
      r0 |-> 0, r1 |-> 0, r2 |-> 0, r3 |-> 0,
      r4 |-> 0, r5 |-> 0, r6 |-> 0, r7 |-> 0,
      mem |-> [a \in {} |-> 0], keyboard_ready |-> FALSE, last_char |-> NoChar,
      overflow_checks |-> checks, overflowed |-> FALSE, panicked |-> FALSE,
      ret |-> <<>>, log |-> <<>>, polled |-> NoChar ]

----------------------------------------------------------------------------
(* What the host loads before it runs the machine: the fixtures of the     *)
(* tests of lc3.rs, with the instruction at 0x3000, the psr and the        *)
(* supervisor stack base drawn from small sets.                            *)

RTI_WORD     == 32768   \* 0b1000_0000_0000_0000
ILLEGAL_WORD == 53248   \* 0b1101_0000_0000_0000, the unused opcode
ADD_R0_1     == 4129    \* 0b0001_000_000_1_00001  ADD R0,R0,#1
AND_R1_0     == 21088   \* 0b0101_001_001_1_00000  AND R1,R1,#0
BRNZ_5       == 3077    \* 0b0000_110_000000101    BRnz #5
JMP_R2       == 49280   \* 0b1100_000_010_000000   JMP R2
JSR_M2       == 20478   \* 0b0100_1_11111111110    JSR #-2
LD_R2_1      == 9217    \* 0b0010_010_000000001    LD R2,+1
LDI_R2_1     == 41985   \* 0b1010_010_000000001    LDI R2,+1
LDR_R2_R1_1  == 25665   \* 0b0110_010_001_000001   LDR R2,R1,#1
LEA_R2_2     == 58370   \* 0b1110_010_000000010    LEA R2,+2
NOT_R2_R1    == 38015   \* 0b1001_010_001_1_11111  NOT R2,R1
ST_R2_1      == 13313   \* 0b0011_010_000000001    ST R2,+1
STI_R2_1     == 46081   \* 0b1011_010_000000001    STI R2,+1
STR_R0_R1    == 28736   \* 0b0111_000_001_000000   STR R0,R1,#0
STR_R2_R3    == 29888   \* 0b0111_010_011_000000   STR R2,R3,#0
TRAP_1       == 61441   \* 0b1111_0000_00000001    TRAP 1

USER_PC  == 12288       \* 0x3000
HANDLER  == 512         \* 0x0200, where 0x0100 and 0x0101 point
KEY_HANDLER == 4608     \* 0x1200, where 0x0180 points
KEY_CODE == 128         \* 0x80
TRAP_TARGET == 4919     \* 0x1337
USER_SP  == 65024       \* 0xFE00, the user stack pointer main sets
CHAR_H   == 72          \* 0x48
CHAR_A   == 65          \* 'A'

\* one word of every opcode
UserWords ==
    { RTI_WORD, ILLEGAL_WORD, ADD_R0_1, AND_R1_0, BRNZ_5, JMP_R2, JSR_M2,
      LD_R2_1, LDI_R2_1, LDR_R2_R1_1, LEA_R2_2, NOT_R2_R1, ST_R2_1, STI_R2_1,
      STR_R0_R1, STR_R2_R3, TRAP_1 }

\* the words that enter or leave a context
ContextWords == { RTI_WORD, ILLEGAL_WORD }

\* psr: user / supervisor, with a priority and a flag
UserPsr == 32768        \* 0b1 << 15
PsrValues == { 0, UserPsr, UserPsr + 512 + 1, 1280 + 2 }

\* saved_ssp: the tests' 0x3000, the 0 of new(), and bases whose two stack
\* slots fall on the vector table (0x0102, 0x0182) or on the device
\* registers (0xFE02, 0xFE03, 0xFE07)
SspValues == { USER_PC, 0, 258, 386, 65026, 65027, 65031 }

\* the image: vectors, handlers (a lone RTI each), the user program
Image(w) ==
    (1 :> TRAP_TARGET) @@ (IVT :> HANDLER) @@ (IVT + 1 :> HANDLER) @@
    (IVT + KEY_CODE :> KEY_HANDLER) @@ (HANDLER :> RTI_WORD) @@
    (KEY_HANDLER :> RTI_WORD) @@ (USER_PC :> w) @@ (USER_PC + 1 :> BRNZ_5) @@
    (USER_PC + 2 :> MCR)

Fixture(w, p, ssp) ==
    [ img |-> Image(w), pc |-> USER_PC, psr |-> p, saved_ssp |-> ssp,
      r0 |-> 0, r1 |-> MCR, r2 |-> CHAR_H, r3 |-> DDR, r6 |-> USER_SP,
      r7 |-> 0 ]

Fixtures ==
    { Fixture(w, UserPsr, USER_PC) : w \in UserWords } \cup
    { Fixture(w, p, USER_PC) : w \in ContextWords, p \in PsrValues } \cup
    { Fixture(w, p, ssp) : w \in ContextWords, p \in {0, UserPsr}, ssp \in SspValues }

\* BR with every combination of its condition bits 11..9, forwards and back
BrWords == { 512 * c + off : c \in 0..7, off \in {0, 5, 510} }

\* every state of the three flag bits, in user and in supervisor mode
FlagPsrs == { u + f : u \in {0, UserPsr}, f \in 0..7 }

ExecFixture(w, p) ==
    [ img |-> (USER_PC :> w), pc |-> USER_PC, psr |-> p, saved_ssp |-> USER_PC,
      r0 |-> 0, r1 |-> MCR, r2 |-> CHAR_H, r3 |-> DDR, r6 |-> USER_SP,
      r7 |-> 0 ]

\* an instruction word: the opcode in bits 15..12 over the operand bits
Encode(opcode, operand) == 4096 * opcode + operand

\* DR (or SR) in bits 11..9 and SR1 (or BaseR) in bits 8..6
Regs(dr, sr1) == 512 * dr + 64 * sr1

\* ADD / AND R1,R2,R3 and ADD / AND R1,R2,#imm5
RegMode(opcode) == Encode(opcode, Regs(1, 2) + 3)

ImmMode(opcode, imm5) == Encode(opcode, Regs(1, 2) + 32 + imm5)

\* NOT R1,R2
NOT_R1_R2 == Encode(9, Regs(1, 2) + 63)

\* LD, LDI, LEA, ST, STI with R1 and a 9-bit offset field
PcRel(opcode, off9) == Encode(opcode, Regs(1, 0) + off9)

\* LDR, STR with R1, base R2 and a 6-bit offset field
BaseRel(opcode, off6) == Encode(opcode, Regs(1, 2) + off6)

\* JSR with an 11-bit offset field, JSRR and JMP through a base register
JSR(off11) == Encode(4, 2048 + off11)

JSRR(base) == Encode(4, Regs(0, base))

JMP(base) == Encode(12, Regs(0, base))

TRAP(vector) == Encode(15, vector)

\* BRnzp
BRnzp(off9) == Encode(0, 7 * 512 + off9)

NoData == [a \in {} |-> 0]

\* one instruction at address `at`, R2 and R3 its operands, R1 the value a
\* store writes, R7 a link, and the data the instruction may reach
InstrFixture(w, p, at, x2, x3, data) ==
    [ img |-> (at :> w) @@ data, pc |-> at, psr |-> p, saved_ssp |-> USER_PC,
      r0 |-> 0, r1 |-> CHAR_H, r2 |-> x2, r3 |-> x3, r6 |-> USER_SP,
      r7 |-> HANDLER ]

\* register operands: 0, 1, 15, i16::MAX, i16::MIN, -16, -1
Operands == { 0, 1, 15, 32767, 32768, 65520, 65535 }

\* psr before a result-producing instruction: user with N set, supervisor at
\* priority 5 with Z set
AluPsrs == { UserPsr + 4, 1280 + 2 }

AluFixtures ==
    { InstrFixture(RegMode(o), p, USER_PC, a, b, NoData) :
          o \in {1, 5}, p \in AluPsrs, a \in Operands, b \in Operands }

ImmFixtures ==
    { InstrFixture(ImmMode(o, i), UserPsr + 4, USER_PC, a, 0, NoData) :
          o \in {1, 5}, i \in 0..31, a \in Operands }

NotFixtures ==
    { InstrFixture(NOT_R1_R2, p, USER_PC, a, 0, NoData) :
          p \in AluPsrs, a \in Operands }

\* what a load finds: zero, a positive and a negative word
LoadValues == { 0, CHAR_H, MCR }

LoadFixtures ==
    { InstrFixture(PcRel(2, 1), p, USER_PC, 0, 0, (USER_PC + 2 :> v)) :
          p \in AluPsrs, v \in LoadValues } \cup
    { InstrFixture(PcRel(10, 1), p, USER_PC, 0, 0,
                   (USER_PC + 2 :> KEY_HANDLER) @@ (KEY_HANDLER :> v)) :
          p \in AluPsrs, v \in LoadValues } \cup
    { InstrFixture(BaseRel(6, 1), p, USER_PC, b, 0,
                   (KEY_HANDLER :> v) @@ (0 :> v)) :
          p \in AluPsrs, v \in LoadValues, b \in {KEY_HANDLER - 1, W - 1} }

\* where the instruction sits: the tests' 0x3000, the last cell, the first
PcValues == { USER_PC, W - 1, 0 }

\* offset fields: zero, small, largest positive, most negative, -2, -1
Offsets9 == { 0, 1, 2, 255, 256, 510, 511 }

Offsets11 == { 0, 1, 1023, 1024, 2046, 2047 }

\* the instructions that address memory or jump relative to the pc
PcRelWords ==
    { PcRel(o, off) : o \in {2, 10, 14, 3, 11}, off \in Offsets9 } \cup
    { BRnzp(off) : off \in Offsets9 } \cup
    { JSR(off) : off \in Offsets11 }

AddressFixtures ==
    { InstrFixture(w, UserPsr + 2, at, KEY_HANDLER, 0, NoData) :
          w \in PcRelWords, at \in PcValues }

\* every value of the 6-bit, the 9-bit and the 11-bit offset field (every
\* 5-bit immediate is in ImmFixtures)
FieldWords ==
    { BaseRel(o, off) : o \in {6, 7}, off \in 0..63 } \cup
    { PcRel(14, off) : off \in 0..511 } \cup
    { JSR(off) : off \in 0..2047 }

FieldFixtures ==
    { InstrFixture(w, UserPsr, USER_PC, KEY_HANDLER, 0, NoData) :
          w \in FieldWords }

\* the instructions that produce no result, under every state of the flags
FrameWords ==
    { JMP(2), JMP(7), JSRR(2), JSRR(7), JSR(5), TRAP(1), TRAP(255),
      PcRel(3, 1), PcRel(11, 1), BaseRel(7, 1) }

FrameFixtures ==
    { InstrFixture(w, p, USER_PC, KEY_HANDLER, 0,
                   (1 :> TRAP_TARGET) @@ (255 :> USER_PC)) :
          w \in FrameWords, p \in FlagPsrs }

ExecFixtures ==
    { ExecFixture(w, p) : w \in BrWords, p \in FlagPsrs } \cup
    AluFixtures \cup ImmFixtures \cup NotFixtures \cup LoadFixtures \cup
    AddressFixtures \cup FieldFixtures \cup FrameFixtures

\* the keyboard handler at 0x1200: one word hw, then RTI; the user program
\* and the handler both load through a pointer to a device register; cell
\* 0xFE00 holds a word of its own; 0xFE01 holds LDI R1,#0, whose pointer is
\* cell 0xFE02
KbdImage(hw, ptr, entry) ==
    (IVT :> HANDLER) @@ (IVT + 1 :> HANDLER) @@ (HANDLER :> RTI_WORD) @@
    (IVT + KEY_CODE :> entry) @@ (KEY_HANDLER :> hw) @@
    (KEY_HANDLER + 1 :> RTI_WORD) @@ (KEY_HANDLER + 2 :> ptr) @@
    (USER_PC :> LDI_R2_1) @@ (USER_PC + 1 :> BRNZ_5) @@ (USER_PC + 2 :> ptr) @@
    (KBSR :> CHAR_H) @@ (KBDR - 1 :> PcRel(10, 0))

KbdFixture(hw, ptr, entry, ssp) ==
    [ img |-> KbdImage(hw, ptr, entry), pc |-> USER_PC, psr |-> UserPsr,
      saved_ssp |-> ssp,
      r0 |-> 0, r1 |-> MCR, r2 |-> CHAR_H, r3 |-> DDR, r6 |-> USER_SP,
      r7 |-> 0 ]

\* the first word of the handler: RTI, a load and a store through the
\* pointer, the unused opcode
HandlerWords == { RTI_WORD, LDI_R2_1, STI_R2_1, ILLEGAL_WORD }

\* the tests' handler and stack base with every handler word and pointer;
\* a stack whose first slot is 0xFE02; a handler at 0xFE02 and at 0xFE01
KbdFixtures ==
    { KbdFixture(hw, ptr, KEY_HANDLER, USER_PC) :
          hw \in HandlerWords, ptr \in {KBSR, KBDR} } \cup
    { KbdFixture(RTI_WORD, KBDR, KEY_HANDLER, KBDR + 1) } \cup
    { KbdFixture(RTI_WORD, KBDR, entry, USER_PC) : entry \in {KBDR, KBDR - 1} }

\* memory.put of every cell of an image, lowest address first
RECURSIVE put_all(_, _, _)
put_all(m, img, todo) ==
    IF todo = {} THEN m
    ELSE LET a == CHOOSE x \in todo : \A y \in todo : x <= y
         IN  put_all(put(m, a, img[a]), img, todo \ {a})

\* the host's set-up: memory.put of the image, then the public fields
load(m, f) ==
    [ put_all(m, f.img, DOMAIN f.img) EXCEPT
        !.pc = f.pc, !.psr = f.psr, !.saved_ssp = f.saved_ssp,
        !.r0 = f.r0, !.r1 = f.r1, !.r2 = f.r2, !.r3 = f.r3, !.r6 = f.r6,
        !.r7 = f.r7 ]

----------------------------------------------------------------------------
(* Bounds of the exploration *)

MaxClock == 2
MaxInt == 1
MaxPut == 1
MaxNest == 2
MaxGet == 1
MaxRun == 120

\* what the host passes to interrupt and to memory.put
IntCodes == { KEY_CODE }
IntPriorities == { 2, 6 }
IntData == { CHAR_A }
HostPuts == { <<DDR, CHAR_H>>, <<MCR, 0>> }

\* the keyboard's requests, code, priority and data, and the host's reads
KbdRequests == { <<KEY_CODE, 2, CHAR_A>>, <<KEY_CODE, 6, CHAR_H>> }
HostGets == { KBSR, KBDR, DSR }

----------------------------------------------------------------------------
(* The context the last call entered, if it entered one *)

NoCtx == <<>>

\* the exception event of a call's log, if any
ExceptionsOf(l) == { l[i][2] : i \in { j \in 1..Len(l) : l[j][1] = "exception" } }

ExecutedOf(l) == { l[i][2] : i \in { j \in 1..Len(l) : l[j][1] = "exec" } }

Entered(kind, code, entry_pc, m) ==
    << [ kind |-> kind, code |-> code, pc |-> entry_pc, psr |-> m.psr,
         r6 |-> m.r6, saved_ssp |-> m.saved_ssp, age |-> 0 ] >>

\* a context one call old is kept for the call that follows it, then dropped
Aged(c) == IF c # NoCtx /\ c[1].age = 0 THEN << [c[1] EXCEPT !.age = 1] >> ELSE NoCtx

\* a context as it is when it is entered: what an RTI has to restore
Frame(kind, priority, entry_pc) ==
    [ kind |-> kind, priority |-> priority, pc |-> entry_pc, psr |-> psr,
      r6 |-> r6, saved_ssp |-> saved_ssp, nested |-> FALSE, ran |-> FALSE ]

\* entering a context nests it in those not yet left
RECURSIVE MarkNested(_)
MarkNested(fs) ==
    IF fs = <<>> THEN <<>>
    ELSE << [Head(fs) EXCEPT !.nested = TRUE] >> \o MarkNested(Tail(fs))

Push(fs, f) == Append(MarkNested(fs), f)

Pop(fs) == SubSeq(fs, 1, Len(fs) - 1)

\* an instruction has been executed inside the innermost context
Ran(fs) == IF fs = <<>> THEN fs ELSE [fs EXCEPT ![Len(fs)].ran = TRUE]

\* whether a clock call with log l executes RTI in supervisor mode
PopsContext(l) ==
    /\ Bits(psr, 15, 1) = 0
    /\ \E w \in ExecutedOf(l) : Bits(w, 12, 4) = 8

\* the contexts after a clock call with log l
FramesAfterClock(l) ==
    IF PopsContext(l) THEN Pop(frames)
    ELSE IF ExceptionsOf(l) # {}
    THEN Push(Ran(frames), Frame("exception", Bits(psr, 8, 3), wrapping_add(pc, 1)))
    ELSE IF ExecutedOf(l) # {} THEN Ran(frames)
    ELSE frames

ResumedAfterClock(l) ==
    IF PopsContext(l) /\ frames # <<>> THEN << frames[Len(frames)] >> ELSE <<>>

\* whether a call with log l wrote cell 0xFE02 after position from
WritesKbdr(l, from) ==
    \E i \in (from + 1)..Len(l) : l[i][1] = "put" /\ l[i][2] = KBDR

\* whether a call with log l read the keyboard data register 0xFE02
ReadsKbdr(l) == \E i \in 1..Len(l) : l[i][1] = "get" /\ l[i][2] = KBDR

\* the keyboard after a call that was no successful interrupt: the data of
\* the last request, whether no read of 0xFE02 has followed it (fresh) and
\* whether no write of 0xFE02 has (intact), now and before the call
KbdAfter(l) ==
    [ data |-> kbd.data,
      fresh |-> kbd.fresh /\ ~ReadsKbdr(l), was_fresh |-> kbd.fresh,
      intact |-> kbd.intact /\ ~WritesKbdr(l, 0), was_intact |-> kbd.intact ]

\* the keyboard after a successful interrupt: its first put is the data
KbdAfterInterrupt(l, data) ==
    [ data |-> <<data>>,
      fresh |-> ~ReadsKbdr(l), was_fresh |-> kbd.fresh,
      intact |-> ~WritesKbdr(l, 1), was_intact |-> kbd.intact ]

\* a call that enters and leaves no context
NoContextChange == frames' = frames /\ resumed' = <<>>

----------------------------------------------------------------------------
(* The specification *)

Init ==
    /\ build = "any"
    /\ last_io = IONone /\ halted = TRUE /\ ie = 1 /\ pc = 0 /\ psr = 0
    /\ saved_usp = 0 /\ saved_ssp = 0
    /\ r0 = 0 /\ r1 = 0 /\ r2 = 0 /\ r3 = 0
    /\ r4 = 0 /\ r5 = 0 /\ r6 = 0 /\ r7 = 0
    /\ mem = [a \in {} |-> 0] /\ keyboard_ready = FALSE /\ last_char = NoChar
    /\ panicked = FALSE
    /\ op = <<"new">> /\ pre = View(new(FALSE))
    /\ ret = <<>> /\ log = <<>> /\ polled = NoChar
    /\ ctx = NoCtx
    /\ frames = <<>> /\ resumed = <<>>
    /\ kbd = [ data |-> <<>>, fresh |-> FALSE, was_fresh |-> FALSE,
               intact |-> TRUE, was_intact |-> TRUE ]
    /\ loaded = FALSE /\ started = FALSE /\ poked = FALSE
    /\ nexec = 0 /\ nclock = 0 /\ nint = 0 /\ nput = 0 /\ nget = 0
    /\ printed = <<>>

\* the host loads a fixture into the machine it has just built
LoadFixture(f) ==
    /\ op = <<"new">>
    /\ Assign(load(Machine(FALSE), f))
    /\ op' = <<"load">>
    /\ loaded' = TRUE
    /\ ctx' = NoCtx
    /\ NoContextChange /\ kbd' = KbdAfter(load(Machine(FALSE), f).log)
    /\ UNCHANGED << started, poked, nexec, nclock, nint, nput, nget, printed >>

Load == op = <<"new">> /\ \E f \in Fixtures : LoadFixture(f)

\* lc3.start()
Start ==
    /\ ~started /\ ~panicked
    /\ Assign(start(Machine(FALSE)))
    /\ op' = <<"start">>
    /\ started' = TRUE
    /\ ctx' = NoCtx
    /\ NoContextChange /\ kbd' = KbdAfter(<< <<"put", MCR, 1>> >>)
    /\ UNCHANGED << loaded, poked, nexec, nclock, nint, nput, nget, printed >>

\* lc3.halted = false, as the tests write it
Unhalt ==
    /\ ~poked /\ ~started /\ ~panicked
    /\ Assign([Machine(FALSE) EXCEPT !.halted = FALSE])
    /\ op' = <<"unhalt">>
    /\ poked' = TRUE
    /\ ctx' = NoCtx
    /\ NoContextChange /\ kbd' = KbdAfter(<<>>)
    /\ UNCHANGED << loaded, started, nexec, nclock, nint, nput, nget, printed >>

\* the machine and its observation after a clock call that gave n
Clocked(n) ==
    /\ Assign(n)
    /\ nexec' = nexec + Cardinality(ExecutedOf(n.log))
    /\ ctx' = IF ExceptionsOf(n.log) # {}
              THEN Entered("exception",
                           CHOOSE c \in ExceptionsOf(n.log) : TRUE,
                           wrapping_add(pc, 1), Now)
              ELSE Aged(ctx)
    /\ frames' = FramesAfterClock(n.log)
    /\ resumed' = ResumedAfterClock(n.log)
    /\ kbd' = KbdAfter(n.log)

\* lc3.clock()
Clock ==
    /\ nclock < MaxClock /\ ~panicked
    /\ \E checks \in Checks : Clocked(clock(Machine(checks)))
    /\ op' = <<"clock">>
    /\ nclock' = nclock + 1
    /\ UNCHANGED << loaded, started, poked, nint, nput, nget, printed >>

\* lc3.interrupt(code, priority, data)
Interrupted(n, code, priority, data) ==
    /\ Assign(n)
    /\ ctx' = IF n.ret[1] = "Ok"
              THEN Entered("interrupt", code, pc, Now)
              ELSE NoCtx
    /\ frames' = IF n.ret[1] = "Ok"
                 THEN Push(frames, Frame("interrupt", priority, pc))
                 ELSE frames
    /\ kbd' = IF n.ret[1] = "Ok"
              THEN KbdAfterInterrupt(n.log, data)
              ELSE KbdAfter(n.log)

InterruptCall(code, priority, data) ==
    /\ ~panicked
    /\ Interrupted(interrupt(Machine(FALSE), code, priority, data),
                   code, priority, data)
    /\ resumed' = <<>>
    /\ op' = <<"interrupt", code, priority, data>>
    /\ nint' = nint + 1
    /\ UNCHANGED << loaded, started, poked, nexec, nclock, nput, nget, printed >>

\* one request of the host
Interrupt(code, priority, data) ==
    nint < MaxInt /\ InterruptCall(code, priority, data)

\* the keyboard's requests, which may arrive while one is being served
NestedInterrupt(code, priority, data) ==
    nint < MaxNest /\ InterruptCall(code, priority, data)

\* lc3.memory.put(index, value) by the host
HostPut(index, value) ==
    /\ nput < MaxPut /\ ~panicked
    /\ Assign(put(Machine(FALSE), index, value))
    /\ op' = <<"put", index, value>>
    /\ nput' = nput + 1
    /\ ctx' = NoCtx
    /\ NoContextChange /\ kbd' = KbdAfter(<< <<"put", index, value>> >>)
    /\ UNCHANGED << loaded, started, poked, nexec, nclock, nint, nget, printed >>

\* lc3.memory.get(index) by the host
HostGet(index) ==
    /\ nget < MaxGet /\ ~panicked
    /\ Assign(host_get(Machine(FALSE), index))
    /\ op' = <<"get", index>>
    /\ nget' = nget + 1
    /\ ctx' = NoCtx
    /\ NoContextChange /\ kbd' = KbdAfter(<< <<"get", index>> >>)
    /\ UNCHANGED << loaded, started, poked, nexec, nclock, nint, nput, printed >>

Next ==
    \/ Load
    \/ Start
    \/ Unhalt
    \/ Clock
    \/ \E code \in IntCodes, priority \in IntPriorities, data \in IntData :
          Interrupt(code, priority, data)
    \/ \E h \in HostPuts : HostPut(h[1], h[2])

Spec == Init /\ [][Next]_vars

\* single instructions: a fixture, start, and the clock
LoadExec == op = <<"new">> /\ \E f \in ExecFixtures : LoadFixture(f)

NextExec ==
    \/ LoadExec
    \/ Start
    \/ Clock

SpecExec == Init /\ [][NextExec]_vars

\* the keyboard: a machine set up and started as main does, requests that
\* may nest, the clock, and reads of the device registers by the host
LoadKbd ==
    /\ op = <<"new">>
    /\ \E f \in KbdFixtures :
          /\ Assign(start(load(Machine(FALSE), f)))
          /\ kbd' = KbdAfter(start(load(Machine(FALSE), f)).log)
    /\ op' = <<"load">>
    /\ loaded' = TRUE /\ started' = TRUE
    /\ ctx' = NoCtx
    /\ NoContextChange
    /\ UNCHANGED << poked, nexec, nclock, nint, nput, nget, printed >>

NextKbd ==
    \/ LoadKbd
    \/ Clock
    \/ \E q \in KbdRequests : NestedInterrupt(q[1], q[2], q[3])
    \/ \E index \in HostGets : HostGet(index)

SpecKbd == Init /\ [][NextKbd]_vars

----------------------------------------------------------------------------
(* The driver, main.rs: op is the statement of main that was executed last *)

\* the puts of prepare_supervisor, in its order: trap vectors, exception
\* and interrupt vectors, GETC, OUT, PUTS, HALT
SupervisorImage ==
    << <<32, 512>>, <<33, 544>>, <<34, 576>>, <<35, 608>>, <<36, 640>>,
       <<37, 672>>,
       <<256, 704>>, <<257, 704>>, <<384, 736>>,
       <<512, 40962>>, <<513, 1025>>, <<514, 1>>, <<515, 65024>>,
       <<516, 40961>>, <<517, 49600>>, <<518, 65026>>,
       <<544, 45057>>, <<545, 49600>>, <<546, 65030>>,
       <<576, 5088>>, <<577, 5152>>, <<578, 24704>>, <<579, 1027>>,
       <<580, 61473>>, <<581, 5281>>, <<582, 4091>>, <<583, 7776>>,
       <<584, 49600>>,
       <<672, 20512>>, <<673, 45057>>, <<674, 49600>>, <<675, 65534>> >>

\* the puts of prepare_user_program: LEA R0,+2; TRAP 0x22; TRAP 0x25; the
\* string and its terminating 0
UserProgramImage ==
    << <<12288, 57346>>, <<12289, 61474>>, <<12290, 61477>>,
       <<12291, 72>>, <<12292, 69>>, <<12293, 76>>, <<12294, 76>>,
       <<12295, 79>>, <<12296, 32>>, <<12297, 87>>, <<12298, 79>>,
       <<12299, 82>>, <<12300, 76>>, <<12301, 68>>, <<12302, 10>>,
       <<12303, 0>> >>

\* memory.put of every pair of a sequence, first to last
RECURSIVE put_seq(_, _)
put_seq(m, pairs) ==
    IF pairs = <<>> THEN m
    ELSE put_seq(put(m, Head(pairs)[1], Head(pairs)[2]), Tail(pairs))

\* one statement of main before the loop: from position `from` it leaves
\* the machine n and the position `to`
MainStep(from, to, n) ==
    /\ op = from /\ ~panicked
    /\ Assign(n)
    /\ op' = to
    /\ ctx' = NoCtx
    /\ NoContextChange /\ kbd' = KbdAfter(n.log)
    /\ UNCHANGED << loaded, started, poked, nexec, nclock, nint, nput, nget,
                    printed >>

MainPrepareSupervisor ==
    MainStep(<<"new">>, <<"prepare_supervisor">>,
             put_seq(Machine(FALSE), SupervisorImage))

MainPrepareUserProgram ==
    MainStep(<<"prepare_supervisor">>, <<"prepare_user_program">>,
             put_seq(Machine(FALSE), UserProgramImage))

MainSetPsr ==
    MainStep(<<"prepare_user_program">>, <<"psr">>,
             [Machine(FALSE) EXCEPT !.psr = UserPsr])

MainSetPc ==
    MainStep(<<"psr">>, <<"pc">>, [Machine(FALSE) EXCEPT !.pc = USER_PC])

MainSetSsp ==
    MainStep(<<"pc">>, <<"saved_ssp">>,
             [Machine(FALSE) EXCEPT !.saved_ssp = USER_PC])

MainSetR6 ==
    MainStep(<<"saved_ssp">>, <<"r6">>, [Machine(FALSE) EXCEPT !.r6 = USER_SP])

\* print_registers reads the word at pc through memory.get
MainPrintRegisters ==
    MainStep(<<"r6">>, <<"print_registers">>, host_get(Machine(FALSE), pc))

MainStart == op = <<"print_registers">> /\ Start

\* the loop flag of main: the last clock call returned Halt
Done == op = <<"clock">> /\ ret = IOHalt

\* print!("{}", (c as u8) as char)
Printed(out, event) ==
    IF event[1] = "Display" THEN Append(out, event[2] % 256) ELSE out

\* one turn of while !done: clock, then the match on what it returned
MainClock ==
    /\ op \in { <<"start">>, <<"clock">> } /\ ~Done
    /\ nclock < MaxRun /\ ~panicked
    /\ \E checks \in Checks :
           \E n \in { clock(Machine(checks)) } : Clocked(n)
    /\ op' = <<"clock">>
    /\ nclock' = nclock + 1
    /\ printed' = Printed(printed, ret')
    /\ UNCHANGED << loaded, started, poked, nint, nput, nget >>

NextMain ==
    \/ MainPrepareSupervisor
    \/ MainPrepareUserProgram
    \/ MainSetPsr
    \/ MainSetPc
    \/ MainSetSsp
    \/ MainSetR6
    \/ MainPrintRegisters
    \/ MainStart
    \/ MainClock

\* main runs on: no statement is delayed for ever
SpecMain == Init /\ [][NextMain]_vars /\ WF_vars(NextMain)

----------------------------------------------------------------------------
(* Reading the observation of the last call *)

IsClock == op[1] = "clock"

IsInterrupt == op[1] = "interrupt"

\* the last call was a clock call that fetched and executed an instruction
Executed == IsClock /\ ExecutedOf(log) # {}

\* the instruction it executed, and its opcode
Instruction == CHOOSE w \in ExecutedOf(log) : TRUE

Opcode == Bits(Instruction, 12, 4)

\* the memory writes and reads of the last call, in order
PutsOf(l) == SelectSeq(l, LAMBDA e : e[1] = "put")

GetsOf(l) == SelectSeq(l, LAMBDA e : e[1] = "get")

\* the addresses read, in order
ReadsOf(l) == [i \in 1..Len(GetsOf(l)) |-> GetsOf(l)[i][2]]

Stored(index, value) == \E i \in 1..Len(log) : log[i] = <<"put", index, value>>

\* the general registers other than the stack pointer and the link register
SameR0to5 ==
    /\ r0 = pre.r0 /\ r1 = pre.r1 /\ r2 = pre.r2
    /\ r3 = pre.r3 /\ r4 = pre.r4 /\ r5 = pre.r5

\* the two supervisor stack slots of a context save made with stack base ssp
Slot1(ssp) == wrapping_sub(ssp, 1)

Slot2(ssp) == wrapping_sub(ssp, 2)

----------------------------------------------------------------------------
(* C1 .. C10 *)

\* C1: interrupt(code, priority, data) returns Err exactly when the
\* interrupt-enable flag is not 1 or the requested priority is not strictly
\* greater than the priority in psr bits 10..8; and whenever it returns Err,
\* pc, psr, r0..r7, saved_usp, saved_ssp, every memory cell, the
\* keyboard-ready latch, the display latch and halted are unchanged.
C1_RejectedInterrupt ==
    IsInterrupt =>
        /\ (ret[1] = "Err") <=> (ie # 1 \/ ~(op[3] > Bits(pre.psr, 8, 3)))
        /\ ret[1] = "Err" => Now = pre

\* an equal-priority request was rejected on a machine that was set up
C1_Witness ==
    /\ IsInterrupt /\ ret[1] = "Err"
    /\ op[3] = Bits(pre.psr, 8, 3)
    /\ loaded /\ DOMAIN pre.mem # {}

\* C2 as stated: a context entered from user mode by a successful interrupt
\* or by an internal exception, whose handler starts with RTI, is left by
\* that RTI with pc, psr, r6 and saved_ssp as they were at entry (pc the
\* incremented pc for an exception), provided the two stack slots are
\* neither the vector entry nor the handler word.
C2_EntryThenRTI ==
    /\ Executed /\ Opcode = 8
    /\ ctx # NoCtx /\ ctx[1].age = 1
    /\ Bits(ctx[1].psr, 15, 1) = 1

C2_SlotsClear ==
    { Slot1(ctx[1].saved_ssp), Slot2(ctx[1].saved_ssp) } \cap
        { IVT + ctx[1].code, pre.pc } = {}

C2_Restored ==
    /\ pc = ctx[1].pc /\ psr = ctx[1].psr
    /\ r6 = ctx[1].r6 /\ saved_ssp = ctx[1].saved_ssp

C2_RoundTripAsStated ==
    (C2_EntryThenRTI /\ C2_SlotsClear) => C2_Restored

\* C2, amended: the same, provided also that neither stack slot is one of
\* the read-mapped device registers 0xFE00 and 0xFE04, whose reads do not
\* return the stored cell.
C2_RoundTrip ==
    ( /\ C2_EntryThenRTI /\ C2_SlotsClear
      /\ { Slot1(ctx[1].saved_ssp), Slot2(ctx[1].saved_ssp) } \cap {KBSR, DSR} = {} )
    => C2_Restored

\* an exception taken in user mode at priority 2 has been returned from
C2_Witness ==
    /\ C2_EntryThenRTI /\ C2_SlotsClear /\ C2_Restored
    /\ ctx[1].kind = "exception"
    /\ Bits(psr, 8, 3) = 2 /\ pc = USER_PC + 1

\* C3 as stated: a clock call that starts with halted false and whose
\* instruction stores no 0 to 0xFFFE returns with halted still false,
\* whether halted was cleared by start() or by writing the field.
C3_RunningStaysRunning ==
    (IsClock /\ ~panicked /\ ~pre.halted /\ ~Stored(MCR, 0)) => ~halted

\* C4 as stated: a clock call that finds the display latch set returns
\* Display of the latched value and clears the latch, whatever 0xFFFE holds.
C4_DisplayReported ==
    (IsClock /\ ~panicked /\ polled # NoChar) =>
        /\ ret = IODisplay(polled[1])
        /\ last_char = NoChar

\* C5: a clock call whose instruction stores 0 to 0xFFFE returns Halt and
\* sets halted; and a clock call returns Halt only with cell 0xFFFE holding
\* 0 (the cell is not written after the poll), and then halted is set.
C5_HaltOnControlRegister ==
    (IsClock /\ ~panicked) =>
        /\ (Executed /\ Stored(MCR, 0)) => (ret = IOHalt /\ halted)
        /\ ret = IOHalt => (Cell(mem, MCR) = 0 /\ halted)

\* after start(), STR R0,R1,#0 has stored 0 to 0xFFFE and the call returned Halt
C5_Witness ==
    /\ IsClock /\ started /\ Executed /\ Instruction = STR_R0_R1
    /\ Stored(MCR, 0) /\ ret = IOHalt /\ halted

\* C6: a clock call made while halted executes nothing: pc, psr, r0..r7,
\* saved_usp, saved_ssp, memory and the keyboard-ready latch are unchanged
\* and halted stays true; and as long as neither start() was called nor the
\* halted field written, the machine is halted and has executed nothing,
\* whatever clock calls, interrupt calls and memory writes were made.
C6_HaltedClockIsNoOp ==
    /\ (IsClock /\ pre.halted) =>
           /\ ~Executed /\ halted
           /\ [Now EXCEPT !.last_char = pre.last_char] = pre
    /\ (~started /\ ~poked) => (halted /\ nexec = 0)

\* a clock call on a loaded machine that was interrupted and written to,
\* but never started
C6_Witness ==
    /\ IsClock /\ pre.halted /\ loaded /\ ~started /\ ~poked
    /\ nint > 0 /\ nput > 0 /\ pre.keyboard_ready

\* C7: a successful interrupt leaves saved_usp = old r6, the old psr at
\* saved_ssp-1, the old pc at saved_ssp-2 (mod 65536, psr pushed first),
\* r6 = saved_ssp-2, and saved_ssp, r0..r5 and r7 unchanged.
C7_InterruptContextSave ==
    (IsInterrupt /\ ret[1] = "Ok") =>
        /\ saved_usp = pre.r6
        /\ Cell(mem, Slot1(pre.saved_ssp)) = pre.psr
        /\ Cell(mem, Slot2(pre.saved_ssp)) = pre.pc
        /\ PutsOf(log) = << <<"put", KBDR, op[4]>>,
                            <<"put", Slot1(pre.saved_ssp), pre.psr>>,
                            <<"put", Slot2(pre.saved_ssp), pre.pc>> >>
        /\ r6 = Slot2(pre.saved_ssp)
        /\ saved_ssp = pre.saved_ssp
        /\ SameR0to5 /\ r7 = pre.r7

\* a successful interrupt with saved_ssp = 0: the slots wrap to 0xFFFF, 0xFFFE
C7_Witness ==
    /\ IsInterrupt /\ ret[1] = "Ok"
    /\ pre.saved_ssp = 0 /\ r6 = MCR /\ pre.pc = USER_PC /\ pre.r6 = USER_SP

\* C8: a successful interrupt with priority in 1..7 sets the keyboard-ready
\* latch, leaves data in cell 0xFE02 (unless a stack slot is 0xFE02), sets
\* psr bits 10..8 to the priority, clears psr bit 15, keeps psr bits 2..0,
\* sets pc to the word memory holds at 0x0100+code, and returns Ok(priority).
C8_InterruptDispatch ==
    (IsInterrupt /\ ret[1] = "Ok" /\ op[3] \in 1..7) =>
        /\ keyboard_ready
        /\ (KBDR \notin {Slot1(pre.saved_ssp), Slot2(pre.saved_ssp)})
               => Cell(mem, KBDR) = op[4]
        /\ Bits(psr, 8, 3) = op[3]
        /\ Bits(psr, 15, 1) = 0
        /\ psr % 8 = pre.psr % 8
        /\ pc = Cell(mem, IVT + op[2])
        /\ ret = Ok(op[3])

\* an interrupt of priority 6 taken in user mode at priority 2, flag P set
C8_Witness ==
    /\ IsInterrupt /\ ret = Ok(6) /\ op[2] = KEY_CODE
    /\ pre.psr = UserPsr + 512 + 1 /\ pc = KEY_HANDLER

\* C9: an internal exception is raised exactly by the unused opcode 1101
\* (code 1) and by RTI in user mode (code 0); it pops nothing, sets
\* saved_usp to the old r6, stores the old psr at saved_ssp-1 and the
\* incremented pc at saved_ssp-2, sets r6 to saved_ssp-2, clears psr bit 15
\* and no other psr bit, sets pc to the word at 0x0100+code, and the clock
\* call returns an event, not an error.
C9_Raised ==
    IF Opcode = 13 THEN {1}
    ELSE IF Opcode = 8 /\ Bits(pre.psr, 15, 1) = 1 THEN {0}
    ELSE {}

C9_InternalException ==
    Executed =>
        /\ ExceptionsOf(log) = C9_Raised
        /\ \A code \in ExceptionsOf(log) :
              /\ ReadsOf(log) = << pre.pc, IVT + code, MCR >>
              /\ saved_usp = pre.r6
              /\ Cell(mem, Slot1(pre.saved_ssp)) = pre.psr
              /\ Cell(mem, Slot2(pre.saved_ssp)) = wrapping_add(pre.pc, 1)
              /\ r6 = Slot2(pre.saved_ssp)
              /\ psr = pre.psr % 32768
              /\ pc = Cell(mem, IVT + code)
              /\ ~panicked
              /\ ret[1] \in {"None", "Halt", "Display"}

\* RTI in user mode at priority 2 has raised exception 0
C9_Witness ==
    /\ Executed /\ Instruction = RTI_WORD /\ ExceptionsOf(log) = {0}
    /\ pre.psr = UserPsr + 512 + 1 /\ psr = 512 + 1 /\ pc = HANDLER

\* C10 as stated: BR sets pc to the incremented pc plus the sign-extended
\* 9-bit offset if and only if (bit 11 and N) or (bit 10 and Z) or (bit 9
\* and P), and leaves pc the incremented pc otherwise.
C10_Requested ==
    \/ (Bits(Instruction, 11, 1) = 1 /\ Bits(pre.psr, 2, 1) = 1)
    \/ (Bits(Instruction, 10, 1) = 1 /\ Bits(pre.psr, 1, 1) = 1)
    \/ (Bits(Instruction, 9, 1) = 1 /\ Bits(pre.psr, 0, 1) = 1)

C10_BranchCondition ==
    (Executed /\ Opcode = 0) =>
        pc = IF C10_Requested
             THEN wrapping_add(wrapping_add(pre.pc, 1),
                               sign_extend(Instruction % 512, 9))
             ELSE wrapping_add(pre.pc, 1)

----------------------------------------------------------------------------
(* C11 .. C20 *)

\* the value of an n-bit field read as an n-bit two's complement number
AsSigned(v, n) == IF v >= Pow2(n - 1) THEN v - Pow2(n) ELSE v

\* the destination / source register fields of the executed instruction
DR == Bits(Instruction, 9, 3)

SR1 == Bits(Instruction, 6, 3)

SR2 == Instruction % 8

\* the pc after the fetch
IncrementedPc == (pre.pc + 1) % W

\* C11 as stated: ADD in register mode never fails and writes
\* (SR1 + SR2) mod 2^16 to the destination, whatever the register values;
\* and when SR2 holds a sign-extended 5-bit immediate the destination and
\* the psr are those of the immediate-mode ADD of that immediate.
C11_AddRegisterWraps ==
    (IsClock /\ ExecutedOf(log) # {} /\ Opcode = 1 /\ ~mux(Instruction)) =>
        /\ ~panicked
        /\ get_reg(Now, DR) = (get_reg(pre, SR1) + get_reg(pre, SR2)) % W
        /\ \A i \in 0..31 :
              (AsSigned(i, 5) = Signed(get_reg(pre, SR2))) =>
                  LET m == add(pre, Encode(1, Regs(DR, SR1) + 32 + i))
                  IN  get_reg(m, DR) = get_reg(Now, DR) /\ m.psr = psr

\* the opcodes that write a result register: ADD, AND, NOT, LD, LDI, LDR, LEA
ResultOpcodes == { 1, 5, 9, 2, 10, 6, 14 }

\* C12: after a clock call that executes ADD, AND, NOT, LD, LDI, LDR or LEA
\* exactly one of psr bits 2..0 is set: N if the value written to the
\* destination register is negative, Z if it is zero, P if it is positive;
\* and psr bits 15..3 are unchanged.
C12_ConditionCodes ==
    (Executed /\ ~panicked /\ Opcode \in ResultOpcodes) =>
        /\ psr % 8 = (IF Signed(get_reg(Now, DR)) < 0 THEN 4
                      ELSE IF Signed(get_reg(Now, DR)) = 0 THEN 2
                      ELSE 1)
        /\ psr \div 8 = pre.psr \div 8

\* LDI has loaded 0 in supervisor mode at priority 5: Z is set, the priority kept
C12_Witness ==
    /\ Executed /\ Instruction = PcRel(10, 1)
    /\ r1 = 0 /\ pre.r1 = CHAR_H
    /\ pre.psr = 1280 + 2 /\ psr = 1280 + 2

\* C13: JSR, JSRR and TRAP leave r7 = the incremented pc whatever the
\* target is; JSRR jumps to the value its base register held before the
\* instruction, also when the base register is r7; TRAP jumps to the word
\* at its vector.
C13_LinkRegister ==
    (Executed /\ Opcode \in {4, 15}) =>
        /\ r7 = IncrementedPc
        /\ (Opcode = 4 /\ Bits(Instruction, 11, 1) = 0) => pc = get_reg(pre, SR1)
        /\ Opcode = 15 => pc = Cell(pre.mem, Instruction % 256)

\* JSRR R7 has jumped to the old r7 and left the return address in r7
C13_Witness ==
    /\ Executed /\ Instruction = JSRR(7)
    /\ pre.r7 = HANDLER /\ pc = HANDLER /\ r7 = USER_PC + 1

\* the incremented pc plus the n-bit offset field of the instruction, mod 2^16
Target(n) == (IncrementedPc + AsSigned(Instruction % Pow2(n), n)) % W

\* C14: a clock call that executes fetches at pc and continues from
\* (pc + 1) mod 65536: an instruction that does not jump leaves pc there;
\* LD, LDI, ST, STI and LEA address (LEA: produce) the incremented pc plus
\* the sign-extended 9-bit offset mod 65536, BR jumps there or nowhere, and
\* JSR jumps to the incremented pc plus the sign-extended 11-bit offset.
C14_PcArithmetic ==
    (Executed /\ ~panicked) =>
        /\ ReadsOf(log)[1] = pre.pc
        /\ Opcode \in ResultOpcodes \cup {3, 11, 7} => pc = IncrementedPc
        /\ Opcode \in {2, 10, 11} => ReadsOf(log)[2] = Target(9)
        /\ Opcode = 3 => PutsOf(log) = << <<"put", Target(9), get_reg(pre, DR)>> >>
        /\ Opcode = 14 => get_reg(Now, DR) = Target(9)
        /\ Opcode = 0 =>
               /\ pc \in { IncrementedPc, Target(9) }
               /\ (Bits(Instruction, 9, 3) = 7 /\ pre.psr % 8 \in {1, 2, 4})
                      => pc = Target(9)
        /\ (Opcode = 4 /\ Bits(Instruction, 11, 1) = 1) => pc = Target(11)

\* LEA R1,#-1 fetched at 0xFFFF: pc continues at 0 and R1 = 0xFFFF
C14_Witness ==
    /\ Executed /\ pre.pc = W - 1 /\ Instruction = PcRel(14, 511)
    /\ pc = 0 /\ r1 = W - 1

\* the width of the field the executed instruction sign-extends, 0 if none
FieldWidth ==
    CASE Opcode \in {1, 5} /\ mux(Instruction) -> 5
      [] Opcode \in {6, 7} -> 6
      [] Opcode \in {0, 2, 10, 14, 3, 11} -> 9
      [] Opcode = 4 /\ Bits(Instruction, 11, 1) = 1 -> 11
      [] OTHER -> 0

Field == Instruction % Pow2(FieldWidth)

\* C15: for n in {5, 6, 9, 11} and every n-bit value v, sign_extend(v, n)
\* is the 16-bit two's complement word of v read as an n-bit signed
\* number, and extending that word again at the same width returns it; so
\* the immediate ADD adds that number and LDR / STR address base plus that
\* number; the 6-bit 0b110100 extends to -12.
C15_SignExtension ==
    /\ Signed(sign_extend(52, 6)) = -12
    /\ (Executed /\ FieldWidth # 0) =>
           /\ sign_extend(Field, FieldWidth) \in 0..(W - 1)
           /\ Signed(sign_extend(Field, FieldWidth)) = AsSigned(Field, FieldWidth)
           /\ sign_extend(sign_extend(Field, FieldWidth), FieldWidth)
                  = sign_extend(Field, FieldWidth)
           /\ Opcode = 1 =>
                  get_reg(Now, DR) = (get_reg(pre, SR1) + AsSigned(Field, 5)) % W
           /\ Opcode = 6 =>
                  ReadsOf(log)[2] = (get_reg(pre, SR1) + AsSigned(Field, 6)) % W
           /\ Opcode = 7 =>
                  PutsOf(log)[1][2] = (get_reg(pre, SR1) + AsSigned(Field, 6)) % W

\* JSR with the most negative 11-bit offset has jumped 1024 words back
C15_Witness ==
    /\ Executed /\ Instruction = JSR(1024)
    /\ sign_extend(Field, FieldWidth) = W - 1024
    /\ pc = USER_PC + 1 - 1024

\* the opcodes of BR, JMP / RET, JSR / JSRR, ST, STI, STR, TRAP
FrameOpcodes == { 0, 12, 4, 3, 11, 7, 15 }

\* C19: BR, JMP / RET, JSR / JSRR, ST, STI, STR and TRAP leave all 16 bits
\* of psr unchanged, whether or not the branch is taken and whatever
\* address is stored to.
C19_PsrFrame ==
    (Executed /\ Opcode \in FrameOpcodes) => psr = pre.psr

\* STI has stored a positive value with N and P both set before and after
C19_Witness ==
    /\ Executed /\ Instruction = PcRel(11, 1)
    /\ PutsOf(log) = << <<"put", 0, CHAR_H>> >>
    /\ pre.psr = UserPsr + 5 /\ psr = UserPsr + 5

\* the privilege bit of a psr value: 1 user, 0 supervisor
Priv(p) == Bits(p, 15, 1)

\* the last call was one of the machine's operations, not a write of the
\* host to its public fields
IsOperation == op[1] \in { "clock", "interrupt", "start", "put", "get" }

\* C20: the privilege bit changes only by a successful interrupt (cleared),
\* by an internal exception (cleared) and by an RTI executed in supervisor
\* mode (overwritten with bit 15 of the popped word); an instruction
\* executed in user mode leaves the processor in user mode unless it raises
\* an internal exception, which sets pc to the word at 0x0100 or 0x0101;
\* TRAP does not change the bit.
C20_PrivilegeBit ==
    /\ (IsOperation /\ Priv(psr) # Priv(pre.psr)) =>
           \/ IsInterrupt /\ ret[1] = "Ok" /\ Priv(psr) = 0
           \/ Executed /\ ExceptionsOf(log) # {} /\ Priv(psr) = 0
           \/ /\ Executed /\ Opcode = 8 /\ Priv(pre.psr) = 0
              /\ psr = GetsOf(log)[3][3]
    /\ (Executed /\ Priv(pre.psr) = 1 /\ Priv(psr) = 0) =>
           \E code \in {0, 1} :
              ExceptionsOf(log) = {code} /\ pc = Cell(mem, IVT + code)
    /\ (Executed /\ Opcode = 15) => Priv(psr) = Priv(pre.psr)

\* TRAP 1 executed in user mode has jumped through its vector in user mode
C20_Witness ==
    /\ Executed /\ Instruction = TRAP_1
    /\ Priv(pre.psr) = 1 /\ Priv(psr) = 1 /\ pc = TRAP_TARGET

\* C16 as stated: when an interrupt is taken in user mode and a second one
\* of higher priority is taken before its handler executes RTI, then right
\* after the second interrupt saved_usp still holds the user stack pointer
\* and the first frame (psr at saved_ssp-1, pc at saved_ssp-2) is still on
\* the supervisor stack; and the RTI that leaves the first context, after
\* the RTI that left the second, restores the pc, psr and r6 of before the
\* first interrupt.
C16_NestedContext ==
    /\ ( /\ IsInterrupt /\ ret[1] = "Ok" /\ Len(frames) = 2
         /\ frames[1].kind = "interrupt" /\ Priv(frames[1].psr) = 1
         /\ ~frames[1].ran ) =>
           /\ saved_usp = frames[1].r6
           /\ Cell(mem, Slot1(frames[1].saved_ssp)) = frames[1].psr
           /\ Cell(mem, Slot2(frames[1].saved_ssp)) = frames[1].pc
    /\ ( /\ resumed # <<>> /\ frames = <<>>
         /\ resumed[1].kind = "interrupt" /\ resumed[1].nested
         /\ Priv(resumed[1].psr) = 1 ) =>
           /\ pc = resumed[1].pc /\ psr = resumed[1].psr /\ r6 = resumed[1].r6

\* C17: no instruction other than an RTI executed in supervisor mode
\* changes psr bits 10..8; so as long as the context of a successful
\* interrupt of priority p has not been left by an RTI, the priority field
\* is at least p and every interrupt call with priority <= p returns Err
\* and changes nothing, whatever the handler has executed.
C17_LowerRequestsDropped ==
    /\ (Executed /\ ~(Opcode = 8 /\ Priv(pre.psr) = 0)) =>
           Bits(psr, 8, 3) = Bits(pre.psr, 8, 3)
    /\ \A i \in 1..Len(frames) :
           frames[i].kind = "interrupt" =>
               /\ Bits(psr, 8, 3) >= frames[i].priority
               /\ ( /\ IsInterrupt /\ op[3] <= frames[i].priority
                    /\ ~(i = Len(frames) /\ ret[1] = "Ok") ) =>
                      (ret[1] = "Err" /\ Now = pre)

\* a request of the priority being served was dropped after the handler
\* had executed an instruction
C17_Witness ==
    /\ IsInterrupt /\ ret[1] = "Err" /\ frames # <<>>
    /\ frames[Len(frames)].kind = "interrupt" /\ frames[Len(frames)].ran
    /\ op[3] = frames[Len(frames)].priority

\* the reads of the last call before position i did not read 0xFE02
NoKbdrReadBefore(i) ==
    \A j \in 1..(i - 1) : ~(log[j][1] = "get" /\ log[j][2] = KBDR)

\* the latch is set only by a successful interrupt and cleared only by a
\* read of 0xFE02, which always clears it
C18_Latch ==
    /\ keyboard_ready = kbd.fresh
    /\ (keyboard_ready /\ ~pre.keyboard_ready) => (IsInterrupt /\ ret[1] = "Ok")
    /\ (~keyboard_ready /\ pre.keyboard_ready) => ReadsKbdr(log)
    /\ (IsInterrupt /\ ret[1] = "Ok") => keyboard_ready
    /\ (~IsInterrupt /\ ReadsKbdr(log)) => ~keyboard_ready

\* a read of 0xFE00 returns 1 from a successful interrupt to the first read
\* of 0xFE02 and 0 otherwise, whatever cell 0xFE00 holds; a read of 0xFE04
\* returns 1
C18_StatusReads ==
    ~IsInterrupt =>
        \A i \in 1..Len(log) :
            log[i][1] = "get" =>
                /\ log[i][2] = DSR => log[i][3] = 1
                /\ log[i][2] = KBSR =>
                       log[i][3] = (IF kbd.was_fresh /\ NoKbdrReadBefore(i)
                                    THEN 1 ELSE 0)

\* C18 as stated: the latch and the status reads as above, and every read
\* of 0xFE02 returns the data of the most recent successful interrupt.
C18_KeyboardAsStated ==
    /\ C18_Latch /\ C18_StatusReads
    /\ (~IsInterrupt /\ kbd.data # <<>>) =>
           \A i \in 1..Len(log) :
               (log[i][1] = "get" /\ log[i][2] = KBDR) => log[i][3] = kbd.data[1]

\* C18, amended: the same, the read of 0xFE02 returning the data of the
\* most recent successful interrupt provided cell 0xFE02 has not been
\* written after that data was stored in it.
C18_Keyboard ==
    /\ C18_Latch /\ C18_StatusReads
    /\ (~IsInterrupt /\ kbd.data # <<>> /\ kbd.was_intact) =>
           \A i \in 1..Len(log) :
               (log[i][1] = "get" /\ log[i][2] = KBDR) => log[i][3] = kbd.data[1]

\* after a successful interrupt the handler has loaded the data from 0xFE02
\* and the host then reads 0 from 0xFE00, whose cell holds another word
C18_Witness ==
    /\ op = <<"get", KBSR>> /\ ret = <<0>>
    /\ kbd.data # <<>> /\ kbd.intact /\ ~kbd.fresh
    /\ r2 = kbd.data[1]
    /\ Cell(mem, KBSR) = CHAR_H

----------------------------------------------------------------------------
(* C21 *)

\* H E L L O space W O R L D newline
Hello == << 72, 69, 76, 76, 79, 32, 87, 79, 82, 76, 68, 10 >>

\* what the driver has printed is the beginning of the text, and the last
\* call returned None, or the character printed last, or Halt after the
\* whole text
C21_Output ==
    /\ ~panicked
    /\ Len(printed) <= Len(Hello)
    /\ printed = SubSeq(Hello, 1, Len(printed))
    /\ IsClock =>
           \/ ret = IONone
           \/ ret = IOHalt /\ printed = Hello
           \/ printed # <<>> /\ ret = IODisplay(printed[Len(printed)])

\* C21: the shipped driver terminates: its clock calls eventually return
\* Halt, and before that the Display events are exactly the twelve
\* characters H, E, L, L, O, space, W, O, R, L, D, newline in that order,
\* each once, every other call returning None.
C21_DriverTerminates ==
    /\ <>(Done /\ halted /\ printed = Hello)
    /\ []C21_Output

\* the 95th clock call, the STI of the HALT routine, has returned Halt with
\* the whole text printed
C21_Witness ==
    /\ Done /\ halted /\ printed = Hello
    /\ nclock = 95 /\ pc = 674 /\ Instruction = 45057

====
